---- MODULE Spec2Model ----
(***************************************************************************)
(* Model of the e-commerce analytics repository: the aggregation engine    *)
(* (AnaliseController), the loader / normaliser (EcommerceModel).          *)
(*                                                                         *)
(* Tables are [columns |-> set of column names, rows |-> sequence of       *)
(* records].  Monetary values are integers (cents); a mean is kept as the  *)
(* exact fraction <<sum, count>>; a percentage is kept in hundredths.      *)
(* The DataFrame library is an external collaborator: its operations are   *)
(* modelled by what they are documented to do (select broadcasts an        *)
(* aggregate over every row, agg of a bare column collects a list per      *)
(* group); where the outcome depends on the library build (operations on   *)
(* list columns, map_dict) the build's capability is a nondeterministic    *)
(* input of the call, recorded in call.lib.                                *)
(***************************************************************************)
EXTENDS Integers, Sequences, FiniteSets, TLC

VARIABLES df, call, ret, fs

vars == <<df, call, ret, fs>>

\* ------------------------------------------------------------------------
\* Bounds of the model
MaxRows == 3
MaxVal == 2

\* ------------------------------------------------------------------------
\* Generic values and helpers
\* Python's None as an optional column-name argument
None == "<None>"

NoCall == [op |-> "none"]
NoRet == [kind |-> "none"]
NoDf == [columns |-> {}, rows |-> <<>>]
NoFs == [exists |-> {}]

Raise(exc) == [kind |-> "raise", exc |-> exc]
Return(v) == [kind |-> "ok", value |-> v]

RECURSIVE SeqSum(_)
SeqSum(s) == IF s = <<>> THEN 0 ELSE Head(s) + SeqSum(Tail(s))

Range(s) == {s[i] : i \in DOMAIN s}

\* the rows of a table picked by a predicate-defined index set, in table order
RECURSIVE SelectIdx(_, _)
SelectIdx(s, keep) ==
    IF s = <<>> THEN <<>>
    ELSE LET n == Len(s)
             front == SelectIdx(SubSeq(s, 1, n - 1), keep)
         IN IF n \in keep THEN Append(front, s[n]) ELSE front

\* the values of one column, in row order
Column(rows, col) == [i \in DOMAIN rows |-> rows[i][col]]

\* Series.sum(): the sum of a numeric column (0 for an empty one)
ColSum(rows, col) == SeqSum(Column(rows, col))

\* all orders of a finite set as sequences without repetition
Perms(S) == {p \in [1..Cardinality(S) -> S] : \A i, j \in DOMAIN p : i # j => p[i] # p[j]}

\* equality of two fractions <<numerator, denominator>>, denominators > 0
RatEq(a, b) == a[1] * b[2] = b[1] * a[2]

\* round(x / d) for x >= 0, d > 0, half away from zero
RoundDiv(x, d) == (2 * x + d) \div (2 * d)

\* mutant of Porcentagem: the quotient is cut to 2 decimals, not rounded
PorcentagemTruncada(valor, total) ==
    IF total = 0
    THEN (IF valor = 0 THEN [kind |-> "nan"] ELSE [kind |-> "inf"])
    ELSE [kind |-> "num", v |-> (valor * 10000) \div total]

\* (valor_total / total_vendas * 100).round(2), in hundredths of a percent;
\* float division by zero yields NaN (0/0) or inf (x/0), which round keeps
Porcentagem(valor, total) ==
    IF total = 0
    THEN (IF valor = 0 THEN [kind |-> "nan"] ELSE [kind |-> "inf"])
    ELSE [kind |-> "num", v |-> RoundDiv(valor * 10000, total)]

\* ------------------------------------------------------------------------
\* AnaliseController.analisar_vendas_por_categoria

Categorias == {"Livros", "Moda", "Casa"}

CatRow == [product_category : Categorias, total_value : 0..MaxVal]

CatTables ==
    {[columns |-> {"product_category", "total_value"}, rows |-> r] :
        r \in UNION {[1..n -> CatRow] : n \in 0..MaxRows}}

\* the tables that also have the cost column
Custos == {0, 1}

CatRowCusto == [product_category : Categorias, total_value : 0..MaxVal, cost_value : Custos]

CatTablesCusto ==
    {[columns |-> {"product_category", "total_value", "cost_value"}, rows |-> r] :
        r \in UNION {[1..n -> CatRowCusto] : n \in 1..MaxRows}}

\* df.group_by(col): the index set of the rows of each key
GroupIdx(rows, col, k) == {i \in DOMAIN rows : rows[i][col] = k}

GroupRows(rows, col, k) == SelectIdx(rows, GroupIdx(rows, col, k))

Keys(rows, col) == {rows[i][col] : i \in DOMAIN rows}

\* mutant of CategoriaGroup: the sum is taken over the whole table (the
\* aggregate evaluated before the grouping) instead of the group's rows
CategoriaGroupWholeTable(rows, colCat, colVal, k) ==
    LET g == GroupRows(rows, colCat, k)
    IN [key |-> k,
        valor_total |-> ColSum(rows, colVal),
        num_transacoes |-> Len(g),
        ticket_medio |-> <<ColSum(g, colVal), Len(g)>>]

\* one group of group_by(coluna_categoria).agg(sum, count, mean), with the
\* sum of cost_value when the table has that column
CategoriaGroup(rows, colCat, colVal, k) ==
    LET g == GroupRows(rows, colCat, k)
        base == [key |-> k,
                 valor_total |-> ColSum(g, colVal),
                 num_transacoes |-> Len(g),
                 ticket_medio |-> <<ColSum(g, colVal), Len(g)>>]
    IN IF "cost_value" \in DOMAIN rows[1]
       THEN base @@ [custo_total |-> ColSum(g, "cost_value")]
       ELSE base

\* .sort("valor_total", descending=True): group_by gives the groups in no
\* defined order, so ties may come out in either order
SortedDescending(s) == \A i, j \in DOMAIN s : i < j => s[i].valor_total >= s[j].valor_total

CategoriaSorted(rows, colCat, colVal) ==
    {p \in Perms({CategoriaGroup(rows, colCat, colVal, k) : k \in Keys(rows, colCat)}) :
        SortedDescending(p)}

\* ((valor_total - custo_total) / valor_total * 100).round(2)
MargemPercentual(valor_total, custo_total) ==
    Porcentagem(valor_total - custo_total, valor_total)

\* with_columns(porcentagem): total_vendas is the sum over the groups;
\* margem_percentual when the groups have custo_total
WithPorcentagem(groups) ==
    LET total_vendas == ColSum(groups, "valor_total")
    IN [i \in DOMAIN groups |->
          LET base == [key |-> groups[i].key,
                       valor_total |-> groups[i].valor_total,
                       num_transacoes |-> groups[i].num_transacoes,
                       ticket_medio |-> groups[i].ticket_medio,
                       porcentagem |-> Porcentagem(groups[i].valor_total, total_vendas)]
          IN IF "custo_total" \in DOMAIN groups[i]
             THEN base @@ [custo_total |-> groups[i].custo_total,
                           margem_percentual |->
                               MargemPercentual(groups[i].valor_total, groups[i].custo_total)]
             ELSE base]

\* the dtypes of the aggregated columns: agg of an aggregate gives a number
\* (custo_total and margem_percentual when the table has cost_value)
CategoriaSchema ==
    [valor_total |-> "f64", num_transacoes |-> "u32", ticket_medio |-> "f64",
     porcentagem |-> "f64", custo_total |-> "f64", margem_percentual |-> "f64"]

AnalisarVendasPorCategoria(colCat, colVal) ==
    /\ call = NoCall
    /\ call' = [op |-> "analisar_vendas_por_categoria",
                coluna_categoria |-> colCat, coluna_valor |-> colVal]
    /\ IF colCat \notin df.columns \/ colVal \notin df.columns
       THEN ret' = Raise("ValueError")
       ELSE \E sorted \in CategoriaSorted(df.rows, colCat, colVal) :
               ret' = Return([by |-> colCat, schema |-> CategoriaSchema,
                              rows |-> WithPorcentagem(sorted)])
    /\ UNCHANGED <<df, fs>>

InitCategoria ==
    /\ df \in CatTables \cup CatTablesCusto
    /\ call = NoCall
    /\ ret = NoRet
    /\ fs = NoFs

\* column names a caller may pass: the defaults and one absent name each
ColunasCategoria == {"product_category", "category"}
ColunasValor == {"total_value", "amount"}

NextCategoria ==
    \E colCat \in ColunasCategoria, colVal \in ColunasValor :
        AnalisarVendasPorCategoria(colCat, colVal)

SpecCategoria == InitCategoria /\ [][NextCategoria]_vars

\* the sum of f over the index set S, written from the claim's words
RECURSIVE SumOver(_, _)
SumOver(f, S) ==
    IF S = {} THEN 0
    ELSE LET x == CHOOSE y \in S : TRUE IN f[x] + SumOver(f, S \ {x})

\* the numbers a result cell holds: the number itself, or the items of a list
CellValues(cell, dtype) ==
    IF dtype \in {"f64", "u32"} THEN {cell} ELSE Range(cell)

CategoriaReturned == call.op = "analisar_vendas_por_categoria" /\ ret.kind = "ok"

\* C1: the valor_total values of the groups returned by
\* analisar_vendas_por_categoria add up to the sum of the value column over
\* all rows of the table (one group per category of the table), and each
\* group's valor_total is the sum of the values of that category's rows.
C1_CategoriaConservation ==
    CategoriaReturned =>
        LET groups == ret.value.rows
            valores == [i \in DOMAIN df.rows |-> df.rows[i][call.coluna_valor]]
        IN /\ ret.value.schema.valor_total = "f64"
           /\ SumOver([i \in DOMAIN groups |-> groups[i].valor_total], DOMAIN groups)
                = SumOver(valores, DOMAIN df.rows)
           /\ {groups[i].key : i \in DOMAIN groups}
                = {df.rows[i][call.coluna_categoria] : i \in DOMAIN df.rows}
           /\ \A i, j \in DOMAIN groups : groups[i].key = groups[j].key => i = j
           /\ \A i \in DOMAIN groups :
                groups[i].valor_total =
                    SumOver(valores, {r \in DOMAIN df.rows :
                                        df.rows[r][call.coluna_categoria] = groups[i].key})

\* C1 witness: a result with two categories, one of them with two rows of
\* different value
C1_Witness ==
    /\ CategoriaReturned
    /\ Len(ret.value.rows) = 2
    /\ \E i \in DOMAIN ret.value.rows :
          ret.value.rows[i].num_transacoes = 2 /\ ret.value.rows[i].valor_total = 3

\* ------------------------------------------------------------------------
\* AnaliseController.analisar_vendas_por_regiao

MaxRowsRegiao == 2

\* the builds of the DataFrame library the code may run on: whether sort,
\* sum and arithmetic accept List columns, and whether Expr.map_dict exists
Builds == [listColumns : BOOLEAN, mapDict : BOOLEAN]

possiveis_colunas == <<"region", "state", "city", "country">>

RegRowFull ==
    [region : {"Sudeste", "Sul"}, state : {"SP", "PR"}, city : {"Santos"},
     country : {"Brasil"}, total_value : 0..MaxVal]

Restrict(f, S) == [c \in S |-> f[c]]

RegTables ==
    {[columns |-> cs \cup {"total_value"},
      rows |-> [i \in DOMAIN full |-> Restrict(full[i], cs \cup {"total_value"})]] :
        cs \in SUBSET Range(possiveis_colunas),
        full \in UNION {[1..n -> RegRowFull] : n \in 0..MaxRowsRegiao}}

\* mutant of DetectarColunaRegiao: the candidates are tried in reverse order
DetectarColunaRegiaoLast(columns) ==
    LET present == {i \in DOMAIN possiveis_colunas : possiveis_colunas[i] \in columns}
    IN IF present = {} THEN None
       ELSE possiveis_colunas[CHOOSE i \in present : \A j \in present : i >= j]

\* the for loop over possiveis_colunas: the first candidate the table has
DetectarColunaRegiao(columns) ==
    LET present == {i \in DOMAIN possiveis_colunas : possiveis_colunas[i] \in columns}
    IN IF present = {} THEN None
       ELSE possiveis_colunas[CHOOSE i \in present : \A j \in present : i <= j]

\* a list of n copies of x
Repeat(x, n) == [i \in 1..n |-> x]

\* df.select([col, sum, count, mean]).group_by(col).agg([bare columns]): the
\* aggregates are evaluated over the whole table and broadcast to every row
\* before the grouping, and agg collects each group's copies into a list
RegiaoGroup(rows, colReg, colVal, k) ==
    LET n == Cardinality(GroupIdx(rows, colReg, k))
    IN [key |-> k,
        valor_total |-> Repeat(ColSum(rows, colVal), n),
        num_transacoes |-> Repeat(Len(rows), n),
        ticket_medio |-> Repeat(<<ColSum(rows, colVal), Len(rows)>>, n)]

\* the order of two lists of numbers: lexicographic, a proper prefix first
RECURSIVE ListLeq(_, _)
ListLeq(a, b) ==
    IF a = <<>> THEN TRUE
    ELSE IF b = <<>> THEN FALSE
    ELSE IF Head(a) # Head(b) THEN Head(a) < Head(b)
    ELSE ListLeq(Tail(a), Tail(b))

\* .sort("valor_total", descending=True) on the list column
RegiaoSorted(rows, colReg, colVal) ==
    {p \in Perms({RegiaoGroup(rows, colReg, colVal, k) : k \in Keys(rows, colReg)}) :
        \A i, j \in DOMAIN p : i < j => ListLeq(p[j].valor_total, p[i].valor_total)}

\* vendas_por_regiao["valor_total"].sum() and the porcentagem column, on a
\* build whose sum and arithmetic work through the lists
RegiaoWithPorcentagem(groups) ==
    LET total_vendas == SeqSum([i \in DOMAIN groups |-> SeqSum(groups[i].valor_total)])
    IN [i \in DOMAIN groups |->
          [key |-> groups[i].key,
           valor_total |-> groups[i].valor_total,
           num_transacoes |-> groups[i].num_transacoes,
           ticket_medio |-> groups[i].ticket_medio,
           porcentagem |-> [e \in DOMAIN groups[i].valor_total |->
                               Porcentagem(groups[i].valor_total[e], total_vendas)]]]

\* the state -> region dictionaries the loop over the distinct (state, region)
\* pairs can build: unique() keeps no order, the last pair of a state wins
MapeamentosRegiao(rows) ==
    {m \in [Keys(rows, "state") -> Keys(rows, "region")] :
        \A st \in DOMAIN m : \E i \in DOMAIN rows :
            rows[i]["state"] = st /\ rows[i]["region"] = m[st]}

WithMacroRegion(groups, m) ==
    [i \in DOMAIN groups |->
        [key |-> groups[i].key,
         valor_total |-> groups[i].valor_total,
         num_transacoes |-> groups[i].num_transacoes,
         ticket_medio |-> groups[i].ticket_medio,
         porcentagem |-> groups[i].porcentagem,
         macro_region |-> m[groups[i].key]]]

\* the dtypes of the aggregated columns: agg of a bare column gives a list
RegiaoSchema ==
    [valor_total |-> "list[f64]", num_transacoes |-> "list[u32]",
     ticket_medio |-> "list[f64]", porcentagem |-> "list[f64]"]

\* the aggregation inside the try block, and the macro_region enrichment
RegiaoAggregate(coluna, colVal, lib) ==
    IF ~lib.listColumns
    THEN ret' = Raise("RuntimeError")
    ELSE \E sorted \in RegiaoSorted(df.rows, coluna, colVal) :
           LET base == RegiaoWithPorcentagem(sorted)
           IN IF coluna = "state" /\ "region" \in df.columns
                 /\ lib.mapDict /\ df.rows # <<>>
              THEN \E m \in MapeamentosRegiao(df.rows) :
                     ret' = Return([by |-> coluna, schema |-> RegiaoSchema,
                                    rows |-> WithMacroRegion(base, m)])
              ELSE ret' = Return([by |-> coluna, schema |-> RegiaoSchema, rows |-> base])

AnalisarVendasPorRegiao(colReg, colVal, lib) ==
    LET coluna == IF colReg = None THEN DetectarColunaRegiao(df.columns) ELSE colReg
    IN /\ call = NoCall
       /\ call' = [op |-> "analisar_vendas_por_regiao", coluna_regiao |-> colReg,
                   coluna_valor |-> colVal, lib |-> lib]
       /\ IF coluna = None THEN ret' = Raise("ValueError")
          ELSE IF coluna \notin df.columns THEN ret' = Raise("ValueError")
          ELSE IF colVal \notin df.columns THEN ret' = Raise("ValueError")
          ELSE RegiaoAggregate(coluna, colVal, lib)
       /\ UNCHANGED <<df, fs>>

InitRegiao ==
    /\ df \in RegTables
    /\ call = NoCall
    /\ ret = NoRet
    /\ fs = NoFs

NextRegiao ==
    \E colReg \in {None} \cup Range(possiveis_colunas), colVal \in ColunasValor, lib \in Builds :
        AnalisarVendasPorRegiao(colReg, colVal, lib)

SpecRegiao == InitRegiao /\ [][NextRegiao]_vars

\* ------------------------------------------------------------------------
\* AnaliseController.analisar_vendas_por_periodo

MaxRowsPeriodo == 3

\* a cell of the date column: a date, a null, or (string column only) a
\* string that is no date
Data(y, m, d) == [kind |-> "date", y |-> y, m |-> m, d |-> d]
DataNula == [kind |-> "null", y |-> 0, m |-> 0, d |-> 0]
DataInvalida == [kind |-> "bad", y |-> 0, m |-> 0, d |-> 0]

Datas ==
    {Data(2024, 1, 15), Data(2024, 2, 10), Data(2024, 4, 7), Data(2025, 1, 15),
     Data(2025, 3, 20)}

Valores == {10, 25}

\* the input tables: the date column is of a temporal dtype or of strings
PeriodoTables ==
    {[columns |-> {"date", "total_value"}, dtype |-> "datetime", rows |-> r] :
        r \in UNION {[1..n -> [date : Datas \cup {DataNula}, total_value : Valores]] :
                        n \in 0..MaxRowsPeriodo}}
    \cup
    {[columns |-> {"date", "total_value"}, dtype |-> "str", rows |-> r] :
        r \in UNION {[1..n -> [date : Datas \cup {DataNula, DataInvalida},
                               total_value : Valores]] : n \in 1..MaxRowsPeriodo}}

\* str.to_datetime(strict=False) with no format: the format is inferred from
\* the first non-null value (an error when it fits none), and every value
\* that does not parse becomes null
FirstNonNull(rows, col) ==
    LET nn == {i \in DOMAIN rows : rows[i][col] # DataNula}
    IN IF nn = {} THEN DataNula ELSE rows[CHOOSE i \in nn : \A j \in nn : i <= j][col]

ToDatetimeFails(rows, col) == FirstNonNull(rows, col) = DataInvalida

ToDatetime(rows, col) ==
    [i \in DOMAIN rows |->
        [rows[i] EXCEPT ![col] = IF @ = DataInvalida THEN DataNula ELSE @]]

\* the day number of a civil date, and dt.weekday(): ISO, Monday = 1 .. Sunday = 7
DaysFromCivil(y, m, d) ==
    LET yy == IF m <= 2 THEN y - 1 ELSE y
        era == yy \div 400
        yoe == yy - era * 400
        mp == (m + 9) % 12
        doy == (153 * mp + 2) \div 5 + d - 1
        doe == yoe * 365 + yoe \div 4 - yoe \div 100 + doy
    IN era * 146097 + doe - 719468

Weekday(dt) == ((DaysFromCivil(dt.y, dt.m, dt.d) + 3) % 7) + 1

\* mutant of Trimestre: the cast rounds to the nearest integer
TrimestreArredondado(m) == (2 * ((m - 1) + 3) + 3) \div 6

\* ((month - 1) / 3 + 1).cast(Int32): true division, then truncation
Trimestre(m) == ((m - 1) + 3) \div 3

\* the null of a date part (year, month, day, weekday, quarter)
NullPart == -1

\* the grouping key of a row in each breakdown, as a tuple of numbers
PeriodoKey(breakdown, dt) ==
    IF dt.kind # "date" THEN
        (IF breakdown = "vendas_por_dia" THEN <<NullPart, NullPart, NullPart>>
         ELSE IF breakdown = "vendas_por_dia_semana" THEN <<NullPart>>
         ELSE <<NullPart, NullPart>>)
    ELSE IF breakdown = "vendas_por_dia" THEN <<dt.y, dt.m, dt.d>>
    ELSE IF breakdown = "vendas_por_mes" THEN <<dt.y, dt.m>>
    ELSE IF breakdown = "vendas_por_dia_semana" THEN <<Weekday(dt)>>
    ELSE <<dt.y, Trimestre(dt.m)>>

PeriodoKeys(rows, colData, breakdown) ==
    {PeriodoKey(breakdown, rows[i][colData]) : i \in DOMAIN rows}

\* dias_semana and map_dict: a weekday number outside 0..6 maps to null
dias_semana ==
    <<"Segunda", "Terça", "Quarta", "Quinta", "Sexta", "Sábado", "Domingo">>

NomeDia(n) == IF n \in 0..6 THEN dias_semana[n + 1] ELSE "null"

\* cast(pl.Utf8).str.zfill(2)
ZFill2(n) == IF n < 10 THEN "0" \o ToString(n) ELSE ToString(n)

\* the display column of a breakdown: nome_dia, mes_ano ("YYYY-MM"),
\* ano_trimestre ("YYYY-Qn"); concat_str of a null is null
PeriodoLabel(breakdown, k) ==
    IF breakdown = "vendas_por_dia" THEN "-"
    ELSE IF k[1] = NullPart THEN "null"
    ELSE IF breakdown = "vendas_por_dia_semana" THEN NomeDia(k[1])
    ELSE IF breakdown = "vendas_por_mes" THEN ToString(k[1]) \o "-" \o ZFill2(k[2])
    ELSE ToString(k[1]) \o "-Q" \o ToString(k[2])

\* df.select([key, sum, count]).group_by(key).agg([bare columns]) and the
\* ticket_medio division: as in the by-region analysis the aggregates are
\* those of the whole table, collected into one list per group; on a build
\* with list arithmetic the division is element by element
PeriodoGroup(rows, colData, colVal, breakdown, k) ==
    LET n == Cardinality({i \in DOMAIN rows : PeriodoKey(breakdown, rows[i][colData]) = k})
    IN [key |-> k,
        valor_total |-> Repeat(ColSum(rows, colVal), n),
        num_transacoes |-> Repeat(Len(rows), n),
        ticket_medio |-> Repeat(<<ColSum(rows, colVal), Len(rows)>>, n),
        label |-> PeriodoLabel(breakdown, k)]

\* .sort(key columns): ascending, nulls first; the keys are distinct
PeriodoSorted(rows, colData, colVal, breakdown) ==
    CHOOSE p \in Perms({PeriodoGroup(rows, colData, colVal, breakdown, k) :
                            k \in PeriodoKeys(rows, colData, breakdown)}) :
        \A i, j \in DOMAIN p : i < j => ListLeq(p[i].key, p[j].key)

PeriodoSchema ==
    [valor_total |-> "list[f64]", num_transacoes |-> "list[u32]",
     ticket_medio |-> "list[f64]"]

PeriodoResult(rows, colData, colVal, breakdown) ==
    [by |-> breakdown, schema |-> PeriodoSchema,
     rows |-> PeriodoSorted(rows, colData, colVal, breakdown)]

\* whether the code of a breakdown raises on the given build
BreakdownFails(breakdown, lib) ==
    \/ ~lib.listColumns
    \/ breakdown = "vendas_por_dia_semana" /\ ~lib.mapDict

\* mutant of TryBreakdown: no try/except around the breakdown
TryBreakdownUncaught(acc, breakdown, fails, result) ==
    IF acc.kind = "raise" THEN acc
    ELSE IF fails THEN Raise("Exception")
    ELSE [acc EXCEPT !.value = @ @@ (breakdown :> result)]

\* try: analises[name] = result / except Exception: log a warning
TryBreakdown(acc, breakdown, fails, result) ==
    IF acc.kind = "raise" THEN acc
    ELSE IF fails THEN [acc EXCEPT !.warnings = @ \cup {breakdown}]
    ELSE [acc EXCEPT !.value = @ @@ (breakdown :> result)]

\* df.select(month).unique().shape[0]: the distinct month numbers, a null
\* counting as one more value
MesesUnicos(rows, colData) ==
    Cardinality({IF rows[i][colData].kind = "date" THEN rows[i][colData].m ELSE NullPart :
                    i \in DOMAIN rows})

TrimestreGate(rows, colData) == MesesUnicos(rows, colData) >= 3

EmptyAnalises == [kind |-> "ok", value |-> <<>>, warnings |-> {}]

\* the four breakdowns in turn, each in its own try block
PeriodoBreakdowns(rows, colData, colVal, lib) ==
    LET step(acc, b) ==
            TryBreakdown(acc, b, BreakdownFails(b, lib), PeriodoResult(rows, colData, colVal, b))
        a1 == step(EmptyAnalises, "vendas_por_dia")
        a2 == step(a1, "vendas_por_mes")
        a3 == step(a2, "vendas_por_dia_semana")
    IN IF TrimestreGate(rows, colData) THEN step(a3, "vendas_por_trimestre") ELSE a3

\* mutant of AnalisarVendasPorPeriodo: the date column is coerced in place,
\* in the caller's table
AnalisarVendasPorPeriodoInPlace(colData, colVal, lib) ==
    /\ call = NoCall
    /\ call' = [op |-> "analisar_vendas_por_periodo", coluna_data |-> colData,
                coluna_valor |-> colVal, lib |-> lib]
    /\ IF colData \notin df.columns \/ colVal \notin df.columns
       THEN ret' = Raise("ValueError") /\ df' = df
       ELSE IF df.dtype # "datetime" /\ ToDatetimeFails(df.rows, colData)
       THEN ret' = Raise("ValueError") /\ df' = df
       ELSE LET rows == IF df.dtype = "datetime" THEN df.rows
                        ELSE ToDatetime(df.rows, colData)
            IN /\ ret' = PeriodoBreakdowns(rows, colData, colVal, lib)
               /\ df' = [df EXCEPT !.dtype = "datetime", !.rows = rows]
    /\ UNCHANGED fs

AnalisarVendasPorPeriodo(colData, colVal, lib) ==
    /\ call = NoCall
    /\ call' = [op |-> "analisar_vendas_por_periodo", coluna_data |-> colData,
                coluna_valor |-> colVal, lib |-> lib]
    /\ IF colData \notin df.columns \/ colVal \notin df.columns
       THEN ret' = Raise("ValueError")
       ELSE IF df.dtype # "datetime" /\ ToDatetimeFails(df.rows, colData)
       THEN ret' = Raise("ValueError")
       ELSE LET rows == IF df.dtype = "datetime" THEN df.rows
                        ELSE ToDatetime(df.rows, colData)
            IN ret' = PeriodoBreakdowns(rows, colData, colVal, lib)
    /\ UNCHANGED <<df, fs>>

InitPeriodo ==
    /\ df \in PeriodoTables
    /\ call = NoCall
    /\ ret = NoRet
    /\ fs = NoFs

ColunasData == {"date", "created"}

NextPeriodo ==
    \E colData \in ColunasData, colVal \in ColunasValor, lib \in Builds :
        AnalisarVendasPorPeriodo(colData, colVal, lib)

SpecPeriodo == InitPeriodo /\ [][NextPeriodo]_vars

\* ------------------------------------------------------------------------
\* Claims on the by-period analysis

PeriodoReturned == call.op = "analisar_vendas_por_periodo" /\ ret.kind = "ok"

\* the dates of the input table (a string that is no date is no date)
PeriodoDates == {df.rows[i][call.coluna_data] : i \in DOMAIN df.rows} \cap Datas

PeriodoRowsOf(dt) == {r \in DOMAIN df.rows : df.rows[r][call.coluna_data] = dt}

\* C3: in the vendas_por_dia breakdown there is exactly one row per calendar
\* date present in the table; its valor_total is the sum of the value column
\* over the rows of that date, its num_transacoes the number of those rows,
\* its ticket_medio valor_total / num_transacoes, and the rows are in
\* ascending date order (a cell that holds a list is read as the numbers in it).
C3_VendasPorDia ==
    (PeriodoReturned /\ "vendas_por_dia" \in DOMAIN ret.value) =>
        LET dia == ret.value["vendas_por_dia"]
            valores == [i \in DOMAIN df.rows |-> df.rows[i][call.coluna_valor]]
        IN /\ \A dt \in PeriodoDates :
                Cardinality({i \in DOMAIN dia.rows : dia.rows[i].key = <<dt.y, dt.m, dt.d>>}) = 1
           /\ \A dt \in PeriodoDates : \A i \in DOMAIN dia.rows :
                dia.rows[i].key = <<dt.y, dt.m, dt.d>> =>
                  /\ CellValues(dia.rows[i].valor_total, dia.schema.valor_total)
                       = {SumOver(valores, PeriodoRowsOf(dt))}
                  /\ CellValues(dia.rows[i].num_transacoes, dia.schema.num_transacoes)
                       = {Cardinality(PeriodoRowsOf(dt))}
                  /\ \A m \in CellValues(dia.rows[i].ticket_medio, dia.schema.ticket_medio) :
                       RatEq(m, <<SumOver(valores, PeriodoRowsOf(dt)),
                                  Cardinality(PeriodoRowsOf(dt))>>)
           /\ \A i, j \in DOMAIN dia.rows : i < j => ListLeq(dia.rows[i].key, dia.rows[j].key)

\* the distinct calendar months (year and month) the dates of the table fall in
PeriodoDistinctMonths == Cardinality({<<dt.y, dt.m>> : dt \in PeriodoDates})

\* C4: analisar_vendas_por_periodo omits vendas_por_trimestre when the dates
\* of the input table fall in fewer than 3 distinct months, and includes it
\* whenever they fall in 3 or more (a breakdown that failed aside).
C4_TrimestreGate ==
    (PeriodoReturned /\ "vendas_por_trimestre" \notin ret.warnings) =>
        ("vendas_por_trimestre" \in DOMAIN ret.value <=> PeriodoDistinctMonths >= 3)

Breakdowns ==
    {"vendas_por_dia", "vendas_por_mes", "vendas_por_dia_semana", "vendas_por_trimestre"}

\* the column checks and the date coercion of the call have passed
PeriodoChecksPassed ==
    /\ call.op = "analisar_vendas_por_periodo"
    /\ call.coluna_data \in df.columns
    /\ call.coluna_valor \in df.columns
    /\ \/ df.dtype = "datetime"
       \/ \E i \in DOMAIN df.rows :
            /\ df.rows[i][call.coluna_data] \in Datas
            /\ \A j \in 1..(i - 1) : df.rows[j][call.coluna_data] = DataNula

\* C5: once the column checks and the date coercion have passed, the call
\* returns a mapping and never raises; a failure inside a breakdown (a logged
\* warning) only removes that breakdown's key, and every breakdown that did
\* not fail is in the result (the quarterly one when its gate is open),
\* whatever happened to its siblings.
C5_BreakdownIsolation ==
    PeriodoChecksPassed =>
        /\ ret.kind = "ok"
        /\ ret.warnings \subseteq Breakdowns
        /\ DOMAIN ret.value \cap ret.warnings = {}
        /\ \A b \in Breakdowns \ {"vendas_por_trimestre"} :
             b \in DOMAIN ret.value \/ b \in ret.warnings
        /\ "vendas_por_trimestre" \in DOMAIN ret.value \cup ret.warnings
             <=> MesesUnicos(IF df.dtype = "datetime" THEN df.rows
                             ELSE ToDatetime(df.rows, call.coluna_data),
                             call.coluna_data) >= 3

\* C5 witness: one breakdown failed and its three siblings are in the result
C5_Witness ==
    /\ PeriodoChecksPassed
    /\ ret.kind = "ok"
    /\ ret.warnings = {"vendas_por_dia_semana"}
    /\ DOMAIN ret.value = Breakdowns \ {"vendas_por_dia_semana"}

\* ------------------------------------------------------------------------
\* Claims on the by-region analysis

RegiaoReturned == call.op = "analisar_vendas_por_regiao" /\ ret.kind = "ok"

\* the rows of the table whose region (the grouping column) is k
RegiaoRowsOf(k) == {r \in DOMAIN df.rows : df.rows[r][ret.value.by] = k}

\* C2: the valor_total values of the groups returned by
\* analisar_vendas_por_regiao add up to the sum of the value column over all
\* rows; each region's valor_total, num_transacoes and ticket_medio are the
\* sum, count and mean of that region's rows only (a cell that holds a list
\* is read as the numbers in it).
C2_RegiaoConservation ==
    RegiaoReturned =>
        LET groups == ret.value.rows
            schema == ret.value.schema
            valores == [i \in DOMAIN df.rows |-> df.rows[i][call.coluna_valor]]
        IN \A i \in DOMAIN groups :
             LET own == RegiaoRowsOf(groups[i].key)
             IN /\ CellValues(groups[i].valor_total, schema.valor_total)
                     = {SumOver(valores, own)}
                /\ CellValues(groups[i].num_transacoes, schema.num_transacoes)
                     = {Cardinality(own)}
                /\ \A m \in CellValues(groups[i].ticket_medio, schema.ticket_medio) :
                     RatEq(m, <<SumOver(valores, own), Cardinality(own)>>)

\* the first column of region, state, city, country that the table has
FirstCandidate ==
    IF "region" \in df.columns THEN "region"
    ELSE IF "state" \in df.columns THEN "state"
    ELSE IF "city" \in df.columns THEN "city"
    ELSE "country"

\* C6: called without a region column (and with a value column the table
\* has), analisar_vendas_por_regiao groups by the first column of region,
\* state, city, country that the table has and the call succeeds; it fails
\* with ValueError when the table has none of the four.
C6_RegiaoAutoDetect ==
    (/\ call.op = "analisar_vendas_por_regiao"
     /\ call.coluna_regiao = None
     /\ call.coluna_valor \in df.columns) =>
        IF df.columns \cap {"region", "state", "city", "country"} = {}
        THEN ret = Raise("ValueError")
        ELSE ret.kind = "ok" /\ ret.value.by = FirstCandidate

\* ------------------------------------------------------------------------
\* EcommerceModel.load_data

\* a path is a directory part, a base name and an extension; "" is a bare
\* relative name, "/srv/in" an absolute directory
Dirs == {"", "data/raw", "/srv/in"}
Exts == {".csv", ".CSV", ".parquet", ".json", ".txt", ".xlsx"}
FilePaths == [dir : Dirs, name : {"vendas"}, ext : Exts]

data_path == "data/raw"

\* os.path.isabs(file_path) or ('data' + os.sep + 'raw' in file_path):
\* the path is used as it is, else it is joined to data_path
PathToLoad(file_path) ==
    IF file_path.dir = "/srv/in" \/ file_path.dir = "data/raw" THEN file_path
    ELSE [file_path EXCEPT !.dir = data_path]

\* str.lower() of an extension
Lower(ext) == IF ext = ".CSV" THEN ".csv" ELSE ext

\* the files whose state the model tracks; every other path does not exist
TrackedFiles ==
    {[dir |-> "data/raw", name |-> "vendas", ext |-> ".csv"],
     [dir |-> "data/raw", name |-> "vendas", ext |-> ".txt"],
     [dir |-> "/srv/in", name |-> "vendas", ext |-> ".CSV"],
     [dir |-> "/srv/in", name |-> "vendas", ext |-> ".xlsx"],
     [dir |-> "/srv/in", name |-> "vendas", ext |-> ".json"]}

\* a file is missing, readable, or makes the reader raise: a PolarsError
\* (malformed content) or another exception (an OSError, a decoding error)
FileStates == {"missing", "readable", "polars_error", "other_error"}

Exists(path) == path \in DOMAIN fs.files /\ fs.files[path] # "missing"

\* pl.read_csv / pl.read_parquet / pl.read_json on an existing file
ReadFile(path) ==
    IF fs.files[path] = "readable" THEN Return([loaded_from |-> path])
    ELSE IF fs.files[path] = "polars_error" THEN Raise("PolarsError")
    ELSE Raise("Exception")

\* the try body: dispatch on the extension of the lowercased path
LoadDispatch(path) ==
    IF Lower(path.ext) \in {".csv", ".parquet", ".json"} THEN ReadFile(path)
    ELSE Raise("ValueError")

\* mutant of LoadHandlers: the ValueError of the dispatch is re-raised as it is
LoadHandlersReraise(outcome) ==
    IF outcome.kind = "ok" THEN outcome
    ELSE IF outcome.exc = "PolarsError" THEN Raise("PolarsError")
    ELSE IF outcome.exc = "ValueError" THEN Raise("ValueError")
    ELSE Raise("RuntimeError")

\* except pl.PolarsError: raise pl.PolarsError / except Exception: raise
\* RuntimeError -- ValueError is an Exception and no PolarsError
LoadHandlers(outcome) ==
    IF outcome.kind = "ok" THEN outcome
    ELSE IF outcome.exc = "PolarsError" THEN Raise("PolarsError")
    ELSE Raise("RuntimeError")

LoadData(file_path) ==
    /\ call = NoCall
    /\ call' = [op |-> "load_data", file_path |-> file_path]
    /\ LET path_to_load == PathToLoad(file_path)
       IN IF ~Exists(path_to_load) THEN ret' = Raise("FileNotFoundError")
          ELSE ret' = LoadHandlers(LoadDispatch(path_to_load))
    /\ UNCHANGED <<df, fs>>

InitLoad ==
    /\ fs \in [files : [TrackedFiles -> FileStates]]
    /\ df = NoDf
    /\ call = NoCall
    /\ ret = NoRet

NextLoad == \E file_path \in FilePaths : LoadData(file_path)

SpecLoad == InitLoad /\ [][NextLoad]_vars

LoadCalled == call.op = "load_data"

\* C7: load_data on an existing file whose extension is none of .csv,
\* .parquet, .json fails with ValueError, an error distinct from the
\* FileNotFoundError of a missing path and from the error of a read failure.
C7_UnsupportedFormat ==
    (/\ LoadCalled
     /\ Exists(PathToLoad(call.file_path))
     /\ Lower(call.file_path.ext) \notin {".csv", ".parquet", ".json"}) =>
        ret = Raise("ValueError")

\* ------------------------------------------------------------------------
\* EcommerceModel.process_sales_data

MaxRowsProcess == 2

ANOMALY_THRESHOLD == 2

\* the null of an identifier or date cell
NullCell == "<null>"

IdCells == {"A1", NullCell}
Precos == {1, 2}
Quantidades == {1, 2}
Totais == {1, 4, 9}

\* a date cell of a string column: in the primary format, in one of the
\* alternative formats, no date at all, or null
DateCells == {"2025-01-05 10:30:00", "2025-01-05", "05/01/2025", "n/a", NullCell}

\* col.lower().replace(' ', '_') on the column names of the model
NormalizeName(c) ==
    CASE c = "Order ID" -> "order_id"
      [] c = "Price" -> "price"
      [] c = "Total Value" -> "total_value"
      [] OTHER -> c

\* a row under other column names: names[c] is the new name of column c
ReKey(row, cols, rename(_)) ==
    [n \in {rename(c) : c \in cols} |-> row[CHOOSE c \in cols : rename(c) = n]]

RawName(c) ==
    CASE c = "order_id" -> "Order ID"
      [] c = "price" -> "Price"
      [] c = "total_value" -> "Total Value"
      [] OTHER -> c

TablesOf(rowSet, n) ==
    {[columns |-> DOMAIN (CHOOSE r \in rowSet : TRUE), rows |-> rs] :
        rs \in UNION {[1..k -> rowSet] : k \in 0..n}}

\* the input tables: the column sets a sales file may have
RowsTotals == [price : Precos, quantity : Quantidades, total_value : Totais]
RowsOrder == [order_id : IdCells, price : Precos, quantity : Quantidades, total_value : Totais]
RowsTransaction ==
    [transaction_id : IdCells, product_id : IdCells, price : Precos,
     quantity : Quantidades, total_value : Totais]
RowsNoTotal == [product_id : IdCells, customer_id : IdCells, price : Precos, quantity : Quantidades]
RowsRaw == {ReKey(r, DOMAIN r, RawName) : r \in RowsOrder}
RowsIds == [order_id : IdCells, customer_id : IdCells]
RowsDated == [transaction_id : IdCells, order_date : DateCells]
RowsPriceOnly == [order_id : IdCells, price : Precos]

ProcessTables ==
    UNION {TablesOf(rowSet, MaxRowsProcess) :
            rowSet \in {RowsTotals, RowsOrder, RowsTransaction, RowsNoTotal, RowsRaw,
                        RowsIds, RowsDated, RowsPriceOnly}}

\* step 1: rename every column to its normalised name
RenameColumns(t) ==
    [columns |-> {NormalizeName(c) : c \in t.columns},
     rows |-> [i \in DOMAIN t.rows |-> ReKey(t.rows[i], t.columns, NormalizeName)]]

\* 'date' in col.lower() or 'time' in col.lower(), on the names of the model
IsDateColumn(c) == c \in {"order_date", "date", "timestamp"}

DATE_FORMAT_DEFAULT == "%Y-%m-%d %H:%M:%S"

\* str.to_datetime(DATE_FORMAT_DEFAULT, strict=False) on a string cell: a
\* value in that format becomes a datetime, any other value becomes null
ToDatetimeDefault(cell) ==
    IF cell = "2025-01-05 10:30:00" THEN "datetime(2025-01-05 10:30:00)" ELSE NullCell

\* a column of strings (a cell of a Datetime column is a datetime or null)
IsStringColumn(rows, c) == \A i \in DOMAIN rows : rows[i][c] \in DateCells

\* step 2: strict=False does not raise on a string column, so the first
\* conversion stands and the alternative formats are not tried; on a column
\* that is not of strings the .str expression raises with every format, each
\* raise is caught, and the column stays as it is
ConvertDates(t) ==
    [t EXCEPT !.rows =
        [i \in DOMAIN t.rows |->
            [c \in t.columns |->
                IF IsDateColumn(c) /\ IsStringColumn(t.rows, c)
                THEN ToDatetimeDefault(t.rows[i][c])
                ELSE t.rows[i][c]]]]

\* Series.max() of a column without nulls
ColMax(rows, col) ==
    LET vals == {rows[i][col] : i \in DOMAIN rows}
    IN CHOOSE v \in vals : \A w \in vals : w <= v

\* mutant of AnomalyDetected: the stored totals are never found anomalous
AnomalyDetectedNever(rows) == FALSE

\* max_value > max_expected * ANOMALY_THRESHOLD
AnomalyDetected(rows) ==
    ColMax(rows, "total_value")
        > ColMax(rows, "price") * ColMax(rows, "quantity") * ANOMALY_THRESHOLD

\* mutant of ComputeTotal: only the rows above the bound are recomputed
ComputeTotalOffending(rows) ==
    [i \in DOMAIN rows |->
        IF "total_value" \in DOMAIN rows[i]
            /\ rows[i]["total_value"]
                 <= ColMax(rows, "price") * ColMax(rows, "quantity") * ANOMALY_THRESHOLD
        THEN rows[i]
        ELSE [c \in DOMAIN rows[i] \cup {"total_value"} |->
                IF c = "total_value" THEN rows[i]["price"] * rows[i]["quantity"]
                ELSE rows[i][c]]]

\* with_columns((price * quantity).alias('total_value')): the whole column
ComputeTotal(rows) ==
    [i \in DOMAIN rows |->
        [c \in DOMAIN rows[i] \cup {"total_value"} |->
            IF c = "total_value" THEN rows[i]["price"] * rows[i]["quantity"]
            ELSE rows[i][c]]]

\* step 3: compute a missing total_value, recompute an anomalous one
TotalValue(t) ==
    IF "price" \in t.columns /\ "quantity" \in t.columns
    THEN IF "total_value" \notin t.columns
         THEN [columns |-> t.columns \cup {"total_value"}, rows |-> ComputeTotal(t.rows)]
         ELSE IF AnomalyDetected(t.rows)
              THEN [t EXCEPT !.rows = ComputeTotal(t.rows)]
              ELSE t
    ELSE t

critical_columns == {"order_id", "product_id", "customer_id"}

PresentCriticalColumns(t) == critical_columns \cap t.columns

\* step 4: filter(~pl.col(col).is_null()) for every present critical column
DropNullCritical(t) ==
    [t EXCEPT !.rows =
        SelectIdx(t.rows, {i \in DOMAIN t.rows :
                            \A c \in PresentCriticalColumns(t) : t.rows[i][c] # NullCell})]

\* process_sales_data(t): the returned table and the number of removed rows
ProcessedTable(t) ==
    IF t.rows = <<>> \/ t.columns = {}
    THEN [kind |-> "ok", value |-> t, removed |-> 0]
    ELSE LET renamed == RenameColumns(t)
             dated == ConvertDates(renamed)
             totalled == TotalValue(dated)
             processed_df == DropNullCritical(totalled)
         IN [kind |-> "ok", value |-> processed_df,
             removed |-> Len(totalled.rows) - Len(processed_df.rows)]

ProcessSalesData ==
    /\ call = NoCall
    /\ call' = [op |-> "process_sales_data"]
    /\ ret' = ProcessedTable(df)
    /\ UNCHANGED <<df, fs>>

\* process_sales_data called on the table a first call returned
ProcessSalesDataAgain ==
    /\ call.op = "process_sales_data"
    /\ ret.kind = "ok"
    /\ call' = [op |-> "process_sales_data_again", first |-> ret.value]
    /\ ret' = ProcessedTable(ret.value)
    /\ UNCHANGED <<df, fs>>

InitProcess ==
    /\ df \in ProcessTables
    /\ call = NoCall
    /\ ret = NoRet
    /\ fs = NoFs

NextProcess == ProcessSalesData \/ ProcessSalesDataAgain

SpecProcess == InitProcess /\ [][NextProcess]_vars

\* ------------------------------------------------------------------------
\* Claims on process_sales_data

ProcessReturned == call.op = "process_sales_data" /\ ret.kind = "ok"

\* the identifier columns of the claim: order / transaction id, product id,
\* customer id
IdentifierColumns == {"order_id", "transaction_id", "product_id", "customer_id"}

\* the input rows that have a null in an identifier column
InputRowsWithNullId ==
    {i \in DOMAIN df.rows :
        \E c \in df.columns :
            NormalizeName(c) \in IdentifierColumns /\ df.rows[i][c] = NullCell}

\* C8: in the table returned by process_sales_data no row has a null in any
\* of the identifier columns (order/transaction id, product id, customer id)
\* that the table has: every input row with such a null is removed, every
\* other row is kept, and the reported number of removed rows is the input
\* row count minus the output row count.
C8_NoNullIdentifiers ==
    ProcessReturned =>
        /\ \A i \in DOMAIN ret.value.rows :
             \A c \in IdentifierColumns \cap ret.value.columns :
                ret.value.rows[i][c] # NullCell
        /\ Len(ret.value.rows) = Len(df.rows) - Cardinality(InputRowsWithNullId)
        /\ ret.removed = Len(df.rows) - Len(ret.value.rows)

\* the input under its normalised column names
InputRenamed == RenameColumns(df)

HasStoredTotal ==
    /\ df.rows # <<>>
    /\ {"price", "quantity", "total_value"} \subseteq InputRenamed.columns

\* the largest value of a column of the input
InputMax(col) ==
    CHOOSE v \in {InputRenamed.rows[i][col] : i \in DOMAIN InputRenamed.rows} :
        \A j \in DOMAIN InputRenamed.rows : InputRenamed.rows[j][col] <= v

\* some stored total exceeds 2.0 x max(price) x max(quantity)
SomeTotalAboveBound ==
    \E i \in DOMAIN InputRenamed.rows :
        InputRenamed.rows[i]["total_value"] > 2 * InputMax("price") * InputMax("quantity")

\* s is t with some rows left out
IsSubTable(s, t) == \E keep \in SUBSET DOMAIN t : SelectIdx(t, keep) = s

\* C9: for a table with price, quantity and a stored total_value, if some
\* stored total exceeds 2.0 x max(price) x max(quantity) then every row of
\* the returned table has total_value = price x quantity (also the rows
\* whose stored total was plausible); otherwise the rows that are returned
\* carry their stored total_value unchanged.
C9_WholeColumnRecompute ==
    (ProcessReturned /\ HasStoredTotal) =>
        IF SomeTotalAboveBound
        THEN \A i \in DOMAIN ret.value.rows :
                ret.value.rows[i]["total_value"]
                    = ret.value.rows[i]["price"] * ret.value.rows[i]["quantity"]
        ELSE IsSubTable(ret.value.rows, InputRenamed.rows)

\* C9 witness: one stored total is above the bound, and a returned row whose
\* stored total (4, within the bound) was not price x quantity (1 x 1) now
\* carries the product
C9_Witness ==
    /\ ProcessReturned /\ HasStoredTotal /\ SomeTotalAboveBound
    /\ Len(ret.value.rows) = Len(df.rows)
    /\ \E i \in DOMAIN ret.value.rows :
         /\ InputRenamed.rows[i]["total_value"] = 4
         /\ InputRenamed.rows[i]["price"] = 1 /\ InputRenamed.rows[i]["quantity"] = 1
         /\ ret.value.rows[i]["total_value"] = 1

HasPriceAndQuantity ==
    /\ df.rows # <<>>
    /\ {"price", "quantity"} \subseteq InputRenamed.columns

ProcessedAgain == call.op = "process_sales_data_again" /\ ret.kind = "ok"

\* C11: process_sales_data applied to its own output (normalised column
\* names, no null in a critical column) is a no-op: it returns the same
\* columns and the same rows, the row count unchanged, and removes nothing.
C11_Idempotent ==
    ProcessedAgain =>
        /\ ret.value.columns = call.first.columns
        /\ ret.value.rows = call.first.rows
        /\ ret.removed = 0

\* ------------------------------------------------------------------------
\* ObterDadosEcommerce: gerar_dados_sinteticos, gerar_dados_clientes

\* a date argument: the text of a string (its format and the numbers it
\* spells), the empty string, or None
DateStr(fmt, y, m, d) == [fmt |-> fmt, y |-> y, m |-> m, d |-> d]
NoDate == DateStr("none", 0, 0, 0)
EmptyDate == DateStr("empty", 0, 0, 0)

IsLeap(y) == (y % 4 = 0 /\ y % 100 # 0) \/ y % 400 = 0

DaysInMonth(y, m) ==
    CASE m \in {4, 6, 9, 11} -> 30
      [] m = 2 -> IF IsLeap(y) THEN 29 ELSE 28
      [] OTHER -> 31

\* datetime.strptime(s, '%Y-%m-%d') raises ValueError on any other text
StrptimeFails(s) ==
    ~(s.fmt = "iso" /\ s.m \in 1..12 /\ s.d \in 1..DaysInMonth(s.y, s.m))

\* the day number of a parsed date
Strptime(s) == DaysFromCivil(s.y, s.m, s.d)

\* the date arguments of the generator calls of the model
GerarDatas ==
    {NoDate, EmptyDate, DateStr("iso", 2025, 1, 1), DateStr("iso", 2025, 2, 30),
     DateStr("br", 31, 1, 2025)}

\* datetime.now(): the day of the call and the second of the file name
hoje == DateStr("iso", 2025, 5, 28)
Timestamps == {"20250528_101500", "20250528_101501"}

\* the values of random.randint(100000, 999999) in the model
TransactionIds == {"TRX-100000", "TRX-555555", "TRX-999999"}

NumRegistrosArgs == {-1, 0, 1, 2, 3}

\* mutant of NumRegistros: only a negative count is replaced
NumRegistrosNegative(num_registros) ==
    IF num_registros < 0 THEN 1000 ELSE num_registros

\* the record count after validation
NumRegistros(num_registros) ==
    IF num_registros <= 0 THEN 1000 ELSE num_registros

NumClientes(num_clientes) ==
    IF num_clientes <= 0 THEN 500 ELSE num_clientes

\* if not start_date: start_date = (hoje - 365 days); if not end_date: hoje
DateOrDefault(s, default) == IF s.fmt \in {"none", "empty"} THEN default ELSE s

\* except Exception as e: raise RuntimeError(...), around the whole body
GerarHandlers(outcome) ==
    IF outcome.kind = "raise" THEN Raise("RuntimeError") ELSE outcome

\* the list dados, kept as its length, the set of its transaction_id values
\* and whether some value occurs in two records
EmptyDados == [len |-> 0, ids |-> {}, repeated |-> FALSE]

Append_(dados, id) ==
    [len |-> dados.len + 1, ids |-> dados.ids \cup {id},
     repeated |-> dados.repeated \/ id \in dados.ids]

\* df.to_csv(output_path): the file is created or overwritten
WriteFile(files, path, content) ==
    [q \in DOMAIN files \cup {path} |-> IF q = path THEN content ELSE files[q]]

\* validation of the arguments, up to the start of the loop
GerarDadosSinteticos(num_registros, start_date, end_date) ==
    /\ call = NoCall
    /\ LET start == DateOrDefault(start_date, DateStr("iso", 2024, 5, 28))
           end == DateOrDefault(end_date, hoje)
           args == [op |-> "gerar_dados_sinteticos", num_registros |-> num_registros,
                    start_date |-> start_date, end_date |-> end_date]
       IN IF StrptimeFails(start) \/ StrptimeFails(end)
          THEN /\ ret' = GerarHandlers(Raise("ValueError"))
               /\ call' = [pc |-> "done", n |-> NumRegistros(num_registros),
                           dados |-> EmptyDados] @@ args
          ELSE /\ ret' = NoRet
               /\ call' = [pc |-> "loop", n |-> NumRegistros(num_registros),
                           dados |-> EmptyDados] @@ args
    /\ UNCHANGED <<df, fs>>

\* one iteration of for _ in range(num_registros)
GerarRegistro ==
    /\ call.op = "gerar_dados_sinteticos"
    /\ call.pc = "loop"
    /\ call.dados.len < call.n
    /\ \E id \in TransactionIds :
         call' = [call EXCEPT !.dados = Append_(call.dados, id)]
    /\ UNCHANGED <<df, ret, fs>>

\* after the loop: the file is written under the name of the current second
GerarSalvar ==
    /\ call.op = "gerar_dados_sinteticos"
    /\ call.pc = "loop"
    /\ call.dados.len = call.n
    /\ \E timestamp \in Timestamps :
         LET output_path == <<"data/raw", "ecommerce_sales_synthetic", timestamp, "csv">>
         IN /\ fs' = [files |-> WriteFile(fs.files, output_path, call.dados)]
            /\ ret' = Return(output_path)
    /\ call' = [call EXCEPT !.pc = "done"]
    /\ UNCHANGED df

\* gerar_dados_clientes: customer_id is CUST-0001, CUST-0002, ...
GerarDadosClientes(num_clientes) ==
    /\ call = NoCall
    /\ call' = [op |-> "gerar_dados_clientes", num_clientes |-> num_clientes, pc |-> "done"]
    /\ \E timestamp \in Timestamps :
         LET n == NumClientes(num_clientes)
             output_path == <<"data/raw", "ecommerce_customers", timestamp, "csv">>
             dados_clientes == [len |-> n, ids |-> 1..n, repeated |-> FALSE]
         IN /\ fs' = [files |-> WriteFile(fs.files, output_path, dados_clientes)]
            /\ ret' = Return(output_path)
    /\ UNCHANGED df

InitGerar ==
    /\ df = NoDf
    /\ call = NoCall
    /\ ret = NoRet
    /\ fs = [files |-> <<>>]

NextGerar ==
    \/ \E num_registros \in NumRegistrosArgs, start_date \in GerarDatas, end_date \in GerarDatas :
         GerarDadosSinteticos(num_registros, start_date, end_date)
    \/ GerarRegistro
    \/ GerarSalvar
    \/ \E num_clientes \in NumRegistrosArgs : GerarDadosClientes(num_clientes)

SpecGerar == InitGerar /\ [][NextGerar]_vars

\* ------------------------------------------------------------------------
\* Claims on the generators

GerarDone(op) == call.op = op /\ call.pc = "done"

\* the file a finished call has written
GerarFile == fs.files[ret.value]

C13_DistinctTransactionIds ==
    (GerarDone("gerar_dados_sinteticos") /\ ret.kind = "ok") =>
        /\ ~GerarFile.repeated
        /\ Cardinality(GerarFile.ids) = GerarFile.len

\* ------------------------------------------------------------------------
\* criar_calendario_powerbi: PowerBIDashboard and PowerBIController

\* the span limit of the calendar, in days
max_dias == 3650

\* datetime.max: the last day a datetime can hold
DatetimeMaxDay == DaysFromCivil(9999, 12, 31)

CalDatas ==
    {DateStr("iso", 2025, 1, 1), DateStr("iso", 2025, 12, 31),
     DateStr("iso", 2034, 12, 30), DateStr("iso", 2034, 12, 31),
     DateStr("iso", 9999, 12, 31), DateStr("iso", 2025, 2, 30),
     DateStr("br", 31, 12, 2025)}

NomesArquivo == {"calendario", "Calendario.CSV"}

\* if not nome_arquivo.lower().endswith('.csv'): nome_arquivo += '.csv'
CalendarioNome(nome_arquivo) ==
    IF nome_arquivo = "Calendario.CSV" THEN nome_arquivo ELSE <<nome_arquivo, "csv">>

\* the last day of the calendar: at most max_dias days after the first
CalendarioFim(dt_inicio, dt_fim) ==
    IF dt_fim - dt_inicio > max_dias THEN dt_inicio + max_dias ELSE dt_fim

\* PowerBIDashboard.criar_calendario_powerbi on the files of the disk: the
\* outcome and the files after the call. The while loop appends data_atual
\* and adds one day to it until it is past dt_fim; adding a day to
\* datetime.max raises OverflowError, which the handler turns into
\* RuntimeError (it re-raises a ValueError as it is).
DashboardCalendario(files, data_inicio, data_fim, nome_arquivo) ==
    IF StrptimeFails(data_inicio) \/ StrptimeFails(data_fim)
    THEN [ret |-> Raise("ValueError"), files |-> files]
    ELSE LET a == Strptime(data_inicio)
             b == Strptime(data_fim)
             dt_inicio == IF a > b THEN b ELSE a
             dt_fim == CalendarioFim(dt_inicio, IF a > b THEN a ELSE b)
             datas == [k \in 1..(dt_fim - dt_inicio + 1) |-> dt_inicio + k - 1]
             caminho_arquivo == <<"exports/powerbi_templates", CalendarioNome(nome_arquivo)>>
         IN IF dt_fim = DatetimeMaxDay
            THEN [ret |-> Raise("RuntimeError"), files |-> files]
            ELSE [ret |-> Return(caminho_arquivo),
                  files |-> WriteFile(files, caminho_arquivo, datas)]

DashboardCriarCalendario(data_inicio, data_fim, nome_arquivo) ==
    /\ call = NoCall
    /\ call' = [op |-> "dashboard.criar_calendario_powerbi", data_inicio |-> data_inicio,
                data_fim |-> data_fim, nome_arquivo |-> nome_arquivo]
    /\ LET r == DashboardCalendario(fs.files, data_inicio, data_fim, nome_arquivo)
       IN ret' = r.ret /\ fs' = [files |-> r.files]
    /\ UNCHANGED df

\* PowerBIController.criar_calendario_powerbi: validates the dates, delegates
\* to the dashboard, and raises RuntimeError for every exception of its body
ControllerCriarCalendario(data_inicio, data_fim, nome_arquivo) ==
    /\ call = NoCall
    /\ call' = [op |-> "controller.criar_calendario_powerbi", data_inicio |-> data_inicio,
                data_fim |-> data_fim, nome_arquivo |-> nome_arquivo]
    /\ IF StrptimeFails(data_inicio) \/ StrptimeFails(data_fim)
       THEN ret' = GerarHandlers(Raise("ValueError")) /\ fs' = fs
       ELSE LET r == DashboardCalendario(fs.files, data_inicio, data_fim, nome_arquivo)
            IN ret' = GerarHandlers(r.ret) /\ fs' = [files |-> r.files]
    /\ UNCHANGED df

InitCalendario ==
    /\ df = NoDf
    /\ call = NoCall
    /\ ret = NoRet
    /\ fs = [files |-> <<>>]

NextCalendario ==
    \/ \E data_inicio \in CalDatas, data_fim \in CalDatas, nome_arquivo \in NomesArquivo :
         DashboardCriarCalendario(data_inicio, data_fim, nome_arquivo)
    \/ \E data_inicio \in CalDatas, data_fim \in CalDatas, nome_arquivo \in NomesArquivo :
         ControllerCriarCalendario(data_inicio, data_fim, nome_arquivo)

SpecCalendario == InitCalendario /\ [][NextCalendario]_vars

\* the generator and the calendar, the operations that take date strings
SpecDatas == InitGerar /\ [][NextGerar \/ NextCalendario]_vars

\* ------------------------------------------------------------------------
\* Claims on date validation and on the calendar

\* a date argument that is a string but not a valid YYYY-MM-DD date
InvalidDateString(s) == s.fmt # "none" /\ StrptimeFails(s)

\* the generator's half: gerar_dados_sinteticos rejects a start_date or end_date
\* that is not a valid YYYY-MM-DD date with a ValueError, writes no file,
\* and substitutes no default date for it.
C14_GerarInvalidDate ==
    (GerarDone("gerar_dados_sinteticos")
        /\ (InvalidDateString(call.start_date) \/ InvalidDateString(call.end_date))) =>
        /\ ret = Raise("ValueError")
        /\ fs.files = <<>>

CalendarioCalled(op) == call.op = op

\* the calendar's half: PowerBIController.criar_calendario_powerbi rejects a
\* data_inicio or data_fim that is not a valid YYYY-MM-DD date with a
\* ValueError and writes no file.
C14_CalendarioInvalidDate ==
    (CalendarioCalled("controller.criar_calendario_powerbi")
        /\ (InvalidDateString(call.data_inicio) \/ InvalidDateString(call.data_fim))) =>
        /\ ret = Raise("ValueError")
        /\ fs.files = <<>>

\* C14: a date string that is not a valid YYYY-MM-DD date is rejected with a
\* ValueError and no file is written, by gerar_dados_sinteticos (start_date,
\* end_date) and by PowerBIController.criar_calendario_powerbi (data_inicio,
\* data_fim) alike; no default date is substituted.
C14_InvalidDateRejected == C14_GerarInvalidDate /\ C14_CalendarioInvalidDate

\* the two dates of a calendar call in ascending order, as day numbers
CalStart ==
    IF Strptime(call.data_inicio) > Strptime(call.data_fim)
    THEN Strptime(call.data_fim) ELSE Strptime(call.data_inicio)
CalEnd ==
    IF Strptime(call.data_inicio) > Strptime(call.data_fim)
    THEN Strptime(call.data_inicio) ELSE Strptime(call.data_fim)

\* C15: criar_calendario_powerbi(start, end) with two valid dates returns
\* after writing one row per day: the days start..end, (end - start).days + 1
\* rows, when the span is at most 3650 days, and the 3651 days
\* start..start+3650 when it is larger; start and end are swapped first when
\* start is after end.
C15_CalendarioRows ==
    (CalendarioCalled("dashboard.criar_calendario_powerbi")
        /\ ~StrptimeFails(call.data_inicio) /\ ~StrptimeFails(call.data_fim)) =>
        /\ ret.kind = "ok"
        /\ ret.value \in DOMAIN fs.files
        /\ LET rows == fs.files[ret.value]
           IN IF CalEnd - CalStart <= 3650
              THEN /\ Len(rows) = CalEnd - CalStart + 1
                   /\ \A k \in DOMAIN rows : rows[k] = CalStart + k - 1
              ELSE /\ Len(rows) = 3651
                   /\ \A k \in DOMAIN rows : rows[k] = CalStart + k - 1

\* ------------------------------------------------------------------------
\* AnaliseController.exportar_analise_para_powerbi, PowerBIExporter.export_to_csv

\* A name is kept as the sequence of its pieces between underscores:
\* f"{a}_{b}" is a \o b.
Nomes == {<<"categoria">>, <<"categoria", "top">>}
SubNomes == {<<"top">>, <<"sub">>}

\* the row counts of the leaf tables
LeafRows == {0, 2}

\* the seconds of the clock, in order: datetime.now().strftime('%Y%m%d_%H%M%S')
TimestampSeq == <<"20250528_101500", "20250528_101501">>

\* a nested mapping: its (key, table) items in insertion order, keys distinct
ExportItems ==
    {it \in UNION {[1..k -> [sub : SubNomes, rows : LeafRows]] : k \in 0..2} :
        \A i, j \in DOMAIN it : i # j => it[i].sub # it[j].sub}

\* an item of the analyses mapping: a table or a one-level mapping of tables
ExportEntries ==
    {[nome |-> n, nested |-> FALSE, rows |-> r, items |-> <<>>] : n \in Nomes, r \in LeafRows}
    \cup {[nome |-> n, nested |-> TRUE, rows |-> 0, items |-> it] : n \in Nomes, it \in ExportItems}

\* the analyses mappings: items in insertion order, keys distinct
ExportAnalises ==
    {a \in UNION {[1..k -> ExportEntries] : k \in 0..2} :
        \A i, j \in DOMAIN a : i # j => a[i].nome # a[j].nome}

\* the leaf tables of one item, in the order the loops visit them
LeavesOfEntry(e, idx) ==
    IF e.nested
    THEN [j \in 1..Len(e.items) |->
            [nome |-> e.nome, sub |-> e.items[j].sub, rows |-> e.items[j].rows, entry |-> idx]]
    ELSE <<[nome |-> e.nome, sub |-> <<>>, rows |-> e.rows, entry |-> idx]>>

RECURSIVE LeavesFrom(_, _)
LeavesFrom(analises, k) ==
    IF k > Len(analises) THEN <<>>
    ELSE LeavesOfEntry(analises[k], k) \o LeavesFrom(analises, k + 1)

Leaves(analises) == LeavesFrom(analises, 1)

\* what the environment does to the writes of one call: for every leaf the
\* second of the clock when it is written and whether the write fails; the
\* clock does not run backwards
ExportPlans(n, now) ==
    {plan \in [1..n -> [t : now..Len(TimestampSeq), fails : BOOLEAN]] :
        /\ \A i, j \in 1..n : i < j => plan[i].t <= plan[j].t
        /\ Cardinality({i \in 1..n : plan[i].fails}) <= 1}

\* nome_arquivo = f"analise_{nome}_{timestamp}" or
\* f"analise_{nome}_{sub_nome}_{timestamp}"
NomeArquivo(leaf, timestamp) == <<"analise">> \o leaf.nome \o leaf.sub \o <<timestamp>>

\* the name of the pair: nome or f"{nome}_{sub_nome}"
NomeLogico(leaf) == leaf.nome \o leaf.sub

\* export_to_csv(df, filename) with include_timestamp=True: the timestamp of
\* the moment of the write is added to the name, then the extension
ExportToCsv(files, rows, filename, timestamp, fails) ==
    LET base_filename == filename \o <<timestamp>>
        output_path == [dir |-> "exports/powerbi", stem |-> base_filename, ext |-> "csv"]
    IN IF fails
       THEN [ret |-> Raise("IOError"), files |-> files]
       ELSE [ret |-> Return(output_path), files |-> WriteFile(files, output_path, rows)]

\* the loop over the leaves: a raise inside the try of an item is logged and
\* ends that item (acc.skip), the loop goes on with the next item
RECURSIVE ExportLeaves(_, _, _, _, _)
ExportLeaves(leaves, k, plan, timestamp, acc) ==
    IF k > Len(leaves) THEN acc
    ELSE LET leaf == leaves[k]
             r == ExportToCsv(acc.files, leaf.rows, NomeArquivo(leaf, timestamp),
                              TimestampSeq[plan[k].t], plan[k].fails)
         IN IF acc.skip = leaf.entry
            THEN ExportLeaves(leaves, k + 1, plan, timestamp, acc)
            ELSE IF r.ret.kind = "raise"
            THEN ExportLeaves(leaves, k + 1, plan, timestamp, [acc EXCEPT !.skip = leaf.entry])
            ELSE ExportLeaves(leaves, k + 1, plan, timestamp,
                    [acc EXCEPT !.files = r.files,
                                !.arquivos_exportados = Append(@, <<NomeLogico(leaf), r.ret.value>>)])

\* the body of exportar_analise_para_powerbi: returned list, files, clock
ExportarAnalise(files, now, analises, plan) ==
    IF analises = <<>>
    THEN [arquivos_exportados |-> <<>>, files |-> files, now |-> now]
    ELSE LET leaves == Leaves(analises)
             acc == ExportLeaves(leaves, 1, plan, TimestampSeq[now],
                        [files |-> files, arquivos_exportados |-> <<>>, skip |-> 0])
         IN [arquivos_exportados |-> acc.arquivos_exportados, files |-> acc.files,
             now |-> IF leaves = <<>> THEN now ELSE plan[Len(leaves)].t]

ExportarAnaliseParaPowerBI(analises) ==
    /\ call = NoCall
    /\ \E plan \in ExportPlans(Len(Leaves(analises)), fs.now) :
         LET r == ExportarAnalise(fs.files, fs.now, analises, plan)
         IN /\ call' = [op |-> "exportar_analise_para_powerbi", analises |-> analises,
                        plan |-> plan, calls |-> 1, first |-> <<>>]
            /\ ret' = Return(r.arquivos_exportados)
            /\ fs' = [files |-> r.files, now |-> r.now]
    /\ UNCHANGED df

\* a second call with the same mapping, right after the first has returned
ExportarNovamente ==
    /\ call.op = "exportar_analise_para_powerbi"
    /\ call.calls = 1
    /\ \E plan \in ExportPlans(Len(Leaves(call.analises)), fs.now) :
         LET r == ExportarAnalise(fs.files, fs.now, call.analises, plan)
         IN /\ call' = [call EXCEPT !.calls = 2, !.first = ret.value, !.plan = plan]
            /\ ret' = Return(r.arquivos_exportados)
            /\ fs' = [files |-> r.files, now |-> r.now]
    /\ UNCHANGED df

InitExport ==
    /\ df = NoDf
    /\ call = NoCall
    /\ ret = NoRet
    /\ fs = [files |-> <<>>, now |-> 1]

NextExport ==
    \/ \E analises \in ExportAnalises : ExportarAnaliseParaPowerBI(analises)
    \/ ExportarNovamente

SpecExport == InitExport /\ [][NextExport]_vars

\* ------------------------------------------------------------------------
\* Claims on exportar_analise_para_powerbi

ExportReturned == call.op = "exportar_analise_para_powerbi" /\ ret.kind = "ok"

ExportLeafList == Leaves(call.analises)

\* the paths of a returned list of (name, path) pairs
PathsOf(pairs) == {pairs[i][2] : i \in DOMAIN pairs}

\* C16: the number of (name, path) pairs returned equals the number of
\* non-empty leaf tables of the mapping, every exported file holds as many
\* rows as its leaf, and the empty mapping yields the empty list.
C16_ExportCount ==
    (ExportReturned /\ call.calls = 1) =>
        /\ Len(ret.value)
             = Cardinality({k \in DOMAIN ExportLeafList : ExportLeafList[k].rows > 0})
        /\ \A i \in DOMAIN ret.value :
             \E k \in DOMAIN ExportLeafList :
                /\ NomeLogico(ExportLeafList[k]) = ret.value[i][1]
                /\ ret.value[i][2] \in DOMAIN fs.files
                /\ fs.files[ret.value[i][2]] = ExportLeafList[k].rows
        /\ call.analises = <<>> => ret.value = <<>>

\* C17: no export overwrites another: the pairs one call returns for
\* different leaves have different paths, and the paths of a second call,
\* made right after the first (even within the same second of the clock),
\* are all different from the paths of the first.
C17_NoOverwrite ==
    ExportReturned =>
        /\ \A i, j \in DOMAIN ret.value : i # j => ret.value[i][2] # ret.value[j][2]
        /\ call.calls = 2 => PathsOf(ret.value) \cap PathsOf(call.first) = {}

\* C18: every file written is named {logical_name}_{YYYYMMDD_HHMMSS}.csv: the
\* logical name (the analysis name, joined by an underscore to the nested key
\* when there is one; with or without the prefix analise_) followed by exactly
\* one timestamp and the extension.
C18_FileName ==
    ExportReturned =>
        \A i \in DOMAIN ret.value :
            /\ ret.value[i][2].ext = "csv"
            /\ \E t \in DOMAIN TimestampSeq :
                 \/ ret.value[i][2].stem = ret.value[i][1] \o <<TimestampSeq[t]>>
                 \/ ret.value[i][2].stem = <<"analise">> \o ret.value[i][1] \o <<TimestampSeq[t]>>

\* ------------------------------------------------------------------------
\* The four operations that take the caller's table

InitFrame == InitPeriodo \/ InitCategoria \/ InitRegiao \/ InitProcess

\* (the tables of the by-period analysis carry the dtype of their date
\* column; process_sales_data is called on the other tables)
NextFrame ==
    \/ NextPeriodo
    \/ NextCategoria
    \/ NextRegiao
    \/ ("dtype" \notin DOMAIN df /\ NextProcess)

SpecFrame == InitFrame /\ [][NextFrame]_vars

\* C19: none of analisar_vendas_por_periodo, analisar_vendas_por_categoria,
\* analisar_vendas_por_regiao and process_sales_data changes the table it is
\* given: across every call, returning or raising, the caller's table keeps
\* its column names, column types and rows.
C19_InputUnchanged == [][df' = df]_vars

\* C19 witness: the by-period analysis has returned its breakdowns over a
\* table whose date column is still of strings: the coercion to datetime
\* acted on a copy
C19_Witness ==
    /\ call.op = "analisar_vendas_por_periodo"
    /\ ret.kind = "ok"
    /\ "vendas_por_dia" \in DOMAIN ret.value
    /\ df.dtype = "str"

\* ------------------------------------------------------------------------
\* Claims on zero denominators

\* a derived value that is a zero or a marker of a missing value (NaN is
\* counted as such a marker)
ZeroOrNullMarker(x) == x.kind \in {"null", "nan"} \/ (x.kind = "num" /\ x.v = 0)

\* C20: when a denominator is zero (a grand total of zero for porcentagem, a
\* category total of zero for margem_percentual) the by-category analysis
\* does not raise and the derived value is a zero or a null marker.
C20_ZeroDenominator ==
    (call.op = "analisar_vendas_por_categoria"
        /\ call.coluna_categoria \in df.columns /\ call.coluna_valor \in df.columns) =>
        /\ ret.kind = "ok"
        /\ LET groups == ret.value.rows
           IN \A i \in DOMAIN groups :
                /\ ColSum(df.rows, call.coluna_valor) = 0 =>
                     ZeroOrNullMarker(groups[i].porcentagem)
                /\ ("margem_percentual" \in DOMAIN groups[i] /\ groups[i].valor_total = 0) =>
                     ZeroOrNullMarker(groups[i].margem_percentual)

\* ------------------------------------------------------------------------
\* Claims on failing writes

\* the write of some leaf of the call failed
ExportWriteFailed ==
    /\ call.op = "exportar_analise_para_powerbi"
    /\ \E k \in DOMAIN call.plan : call.plan[k].fails

\* C21: when the write of a leaf fails during exportar_analise_para_powerbi
\* the failure reaches the caller as a raised error: the call does not return
\* normally with that leaf left out of the returned list.
C21_WriteFailureRaised == ExportWriteFailed => ret.kind = "raise"

\* ------------------------------------------------------------------------
\* Claims on the percentages of the by-category result

Abs(x) == IF x < 0 THEN -x ELSE x

\* the sum of valor_total over the groups of the result
CategoriaGrandTotal ==
    SumOver([i \in DOMAIN ret.value.rows |-> ret.value.rows[i].valor_total],
            DOMAIN ret.value.rows)

\* C22: in a by-category result with a non-zero grand total, each porcentagem
\* is valor_total / (sum of valor_total over all groups) x 100 rounded to 2
\* decimals (at most 0.005 away from the exact quotient), the porcentagem
\* values add up to 100 within 0.005 per group, and the rows are in
\* descending valor_total order.
C22_Porcentagem ==
    (CategoriaReturned /\ CategoriaGrandTotal # 0) =>
        LET groups == ret.value.rows
            total == CategoriaGrandTotal
        IN /\ \A i \in DOMAIN groups :
                /\ groups[i].porcentagem.kind = "num"
                /\ 2 * Abs(groups[i].porcentagem.v * total - groups[i].valor_total * 10000)
                     <= Abs(total)
           /\ 2 * Abs(SumOver([i \in DOMAIN groups |-> groups[i].porcentagem.v], DOMAIN groups)
                      - 10000) <= Len(groups)
           /\ \A i, j \in DOMAIN groups :
                i < j => groups[i].valor_total >= groups[j].valor_total

\* C22 witness: three groups of equal totals, 33.33 each: the percentages
\* add up to 99.99
C22_Witness ==
    /\ CategoriaReturned
    /\ CategoriaGrandTotal # 0
    /\ Len(ret.value.rows) = 3
    /\ \A i \in DOMAIN ret.value.rows : ret.value.rows[i].porcentagem = [kind |-> "num", v |-> 3333]

\* ------------------------------------------------------------------------
\* Claims on the date formats of process_sales_data

\* the date column of the input holds the value v in every row
DateColumnAll(v) ==
    /\ df.rows # <<>>
    /\ "order_date" \in df.columns
    /\ \A i \in DOMAIN df.rows : df.rows[i]["order_date"] = v

\* C23: a string date column whose values do not fit the primary format
\* '%Y-%m-%d %H:%M:%S' is parsed with the first alternative format that fits
\* ('%Y-%m-%d' for 2025-01-05, '%d/%m/%Y' for 05/01/2025): its values come
\* out as datetimes; a column that fits no format is returned unconverted,
\* with its original values.
C23_DateFormatFallback ==
    ProcessReturned =>
        /\ DateColumnAll("2025-01-05") =>
             \A i \in DOMAIN ret.value.rows :
                ret.value.rows[i]["order_date"] = "datetime(2025-01-05 00:00:00)"
        /\ DateColumnAll("05/01/2025") =>
             \A i \in DOMAIN ret.value.rows :
                ret.value.rows[i]["order_date"] = "datetime(2025-01-05 00:00:00)"
        /\ DateColumnAll("n/a") =>
             \A i \in DOMAIN ret.value.rows : ret.value.rows[i]["order_date"] = "n/a"

\* ------------------------------------------------------------------------
\* Claims on the date coercion of the by-period analysis

\* the date column is of strings and holds a value that is no date
HasUnconvertibleDate ==
    /\ call.coluna_data \in df.columns
    /\ call.coluna_valor \in df.columns
    /\ df.dtype = "str"
    /\ \E i \in DOMAIN df.rows : df.rows[i][call.coluna_data] = DataInvalida

\* C24: analisar_vendas_por_periodo on a non-temporal date column with values
\* that cannot be converted to a date raises ValueError and returns no
\* breakdowns: it does not aggregate over unconverted or emptied dates.
C24_ConversionError ==
    (call.op = "analisar_vendas_por_periodo" /\ HasUnconvertibleDate) =>
        ret = Raise("ValueError")

\* ------------------------------------------------------------------------
\* Claims on macro_region

\* the rows of the result that carry a macro_region
WithMacro == {i \in DOMAIN ret.value.rows : "macro_region" \in DOMAIN ret.value.rows[i]}

\* the state st occurs together with the region rg in some row of the table
OccursTogether(st, rg) ==
    \E r \in DOMAIN df.rows : df.rows[r]["state"] = st /\ df.rows[r]["region"] = rg

\* C25: grouping by state a table that also has a region column succeeds, and
\* the result carries a macro_region column in which each state's value is a
\* region that occurs together with that state in the table; when the lookup
\* cannot be built or applied (no rows, no map_dict) the result is returned
\* without macro_region.
C25_MacroRegion ==
    (/\ call.op = "analisar_vendas_por_regiao"
     /\ call.coluna_regiao = "state"
     /\ {"state", "region", call.coluna_valor} \subseteq df.columns) =>
        /\ ret.kind = "ok"
        /\ WithMacro \in {{}, DOMAIN ret.value.rows}
        /\ (df.rows # <<>> /\ call.lib.mapDict) => WithMacro = DOMAIN ret.value.rows
        /\ \A i \in WithMacro :
             OccursTogether(ret.value.rows[i].key, ret.value.rows[i].macro_region)

\* C29: when the region column is auto-detected (coluna_regiao not supplied)
\* the result never has a macro_region column; a result with macro_region
\* comes only from a call that passes 'state' explicitly.
C29_NoMacroRegionOnAutoDetect ==
    RegiaoReturned =>
        /\ call.coluna_regiao = None => WithMacro = {}
        /\ WithMacro # {} => call.coluna_regiao = "state"

\* C29 witness: an auto-detecting call on a table that has both region and
\* state has returned a non-empty result grouped by region
C29_Witness ==
    /\ RegiaoReturned
    /\ call.coluna_regiao = None
    /\ {"state", "region"} \subseteq df.columns
    /\ ret.value.by = "region"
    /\ ret.value.rows # <<>>
    /\ call.lib.mapDict

\* ------------------------------------------------------------------------
\* PowerBIController._exportar_analises_aninhadas

\* a value of the mapping: a table or a mapping; a table is told from the
\* others by the keys that lead to it, which stand for its content
Tabela == [tipo |-> "DataFrame", items |-> <<>>]
Dicionario(items) == [tipo |-> "dict", items |-> items]

Chaves == {"top", "sub"}

\* the mappings over the values S: items in insertion order, keys distinct
Mapeamentos(S) ==
    {it \in UNION {[1..k -> [nome : Chaves, conteudo : S]] : k \in 0..Cardinality(Chaves)} :
        \A i, j \in DOMAIN it : i # j => it[i].nome # it[j].nome}

\* the analyses of up to three levels
AnalisesNivel1 == Mapeamentos({Tabela})
AnalisesNivel2 == Mapeamentos({Tabela} \cup {Dicionario(m) : m \in AnalisesNivel1})
AnalisesAninhadas == Mapeamentos({Tabela} \cup {Dicionario(m) : m \in AnalisesNivel2})

\* the keys that lead to the tables of a mapping
RECURSIVE Folhas(_, _)
Folhas(items, trilha) ==
    UNION {IF items[i].conteudo.tipo = "DataFrame"
           THEN {trilha \o <<items[i].nome>>}
           ELSE Folhas(items[i].conteudo.items, trilha \o <<items[i].nome>>) : i \in DOMAIN items}

\* nome_base.lower().replace(' ', '_'), piece by piece
LowerNome(nome) == [i \in DOMAIN nome |-> IF nome[i] = "Modelo" THEN "modelo" ELSE nome[i]]

\* any(isinstance(v, pl.DataFrame) for v in conteudo.values())
AnyDataFrame(items) == \E i \in DOMAIN items : items[i].conteudo.tipo = "DataFrame"

\* one export_to_csv and the append to resultado['arquivos_dados']; the
\* failAt-th write of the call fails
ExportarTabela(acc, nome_arquivo, rotulo, conteudo) ==
    LET r == ExportToCsv(acc.files, conteudo, nome_arquivo, TimestampSeq[1],
                         acc.n + 1 = acc.failAt)
    IN IF r.ret.kind = "raise"
       THEN [acc EXCEPT !.n = @ + 1, !.raised = TRUE]
       ELSE [acc EXCEPT !.n = @ + 1, !.files = r.files,
                        !.arquivos_dados = Append(@, <<rotulo, r.ret.value>>)]

\* "Exportar DataFrames deste nível": the tables of a mapping that holds at
\* least one table; its other values are passed over
RECURSIVE ExportarDesteNivel(_, _, _, _, _)
ExportarDesteNivel(items, j, nome_base, nome, acc) ==
    IF j > Len(items) \/ acc.raised THEN acc
    ELSE IF items[j].conteudo.tipo = "DataFrame"
    THEN ExportarDesteNivel(items, j + 1, nome_base, nome,
            ExportarTabela(acc, LowerNome(nome_base) \o <<nome, items[j].nome>>,
                           <<"analise", nome, items[j].nome>>,
                           Tail(nome_base) \o <<nome, items[j].nome>>))
    ELSE ExportarDesteNivel(items, j + 1, nome_base, nome, acc)

\* the for loop inside the try: a raise ends the loop of this level and is
\* logged, the caller goes on
RECURSIVE ExportarAninhadas(_, _, _, _)
ExportarAninhadas(analises, k, nome_base, acc) ==
    IF k > Len(analises) THEN acc
    ELSE LET nome == analises[k].nome
             conteudo == analises[k].conteudo
             acc1 == IF conteudo.tipo = "DataFrame"
                     THEN ExportarTabela(acc, LowerNome(nome_base) \o <<nome>>,
                                         <<"analise", nome>>, Tail(nome_base) \o <<nome>>)
                     ELSE IF AnyDataFrame(conteudo.items)
                     THEN ExportarDesteNivel(conteudo.items, 1, nome_base, nome, acc)
                     ELSE ExportarAninhadas(conteudo.items, 1, nome_base \o <<nome>>, acc)
         IN IF acc1.raised
            THEN [acc1 EXCEPT !.raised = FALSE]
            ELSE ExportarAninhadas(analises, k + 1, nome_base, acc1)

ExportarAnalisesAninhadas ==
    /\ call = NoCall
    /\ \E analises \in AnalisesAninhadas :
         \E failAt \in 0..Cardinality(Folhas(analises, <<>>)) :
            LET acc == ExportarAninhadas(analises, 1, <<"Modelo">>,
                          [arquivos_dados |-> <<>>, files |-> fs.files, n |-> 0,
                           failAt |-> failAt, raised |-> FALSE])
            IN /\ call' = [op |-> "_exportar_analises_aninhadas", analises |-> analises,
                           failAt |-> failAt,
                           resultado |-> [arquivos_dados |-> acc.arquivos_dados]]
               /\ fs' = [fs EXCEPT !.files = acc.files]
    /\ ret' = Return(None)
    /\ UNCHANGED df

NextAninhadas == ExportarAnalisesAninhadas

SpecAninhadas == InitExport /\ [][NextAninhadas]_vars

\* ------------------------------------------------------------------------
\* Claims on _exportar_analises_aninhadas

\* the tables written by the call, one per entry of arquivos_dados
TabelasExportadas ==
    [i \in DOMAIN call.resultado.arquivos_dados |->
        fs.files[call.resultado.arquivos_dados[i][2]]]

\* C26: _exportar_analises_aninhadas exports every leaf table of the mapping,
\* whatever its nesting depth and whatever its siblings are, exactly once, and
\* arquivos_dados gets one new entry per leaf table.
C26_EveryLeafOnce ==
    (call.op = "_exportar_analises_aninhadas" /\ call.failAt = 0) =>
        /\ Len(TabelasExportadas) = Cardinality(Folhas(call.analises, <<>>))
        /\ Range(TabelasExportadas) = Folhas(call.analises, <<>>)

\* ------------------------------------------------------------------------
\* The quarter in the by-period analysis and in the calendar table

\* 'Trimestre': (data.month - 1) // 3 + 1
TrimestreCalendario(m) == (m - 1) \div 3 + 1

\* 'AnoTrimestre': f"{data.year}-Q{(data.month - 1) // 3 + 1}"
AnoTrimestre(y, m) == ToString(y) \o "-Q" \o ToString(TrimestreCalendario(m))

\* tables of three rows whose dates run over the twelve months and into a
\* second year
DatasTrimestre == {Data(2024, m, 15) : m \in 1..12} \cup {Data(2025, 1, 15), Data(2025, 12, 15)}

TrimestreTables ==
    {[columns |-> {"date", "total_value"}, dtype |-> "datetime", rows |-> r] :
        r \in [1..3 -> [date : DatasTrimestre, total_value : {10}]]}

InitTrimestre ==
    /\ df \in TrimestreTables
    /\ call = NoCall
    /\ ret = NoRet
    /\ fs = NoFs

SpecTrimestre == InitTrimestre /\ [][NextPeriodo]_vars

\* the quarterly breakdown of a returned by-period analysis
PorTrimestre == ret.value["vendas_por_trimestre"].rows

TrimestreReturned ==
    /\ call.op = "analisar_vendas_por_periodo"
    /\ ret.kind = "ok"
    /\ "vendas_por_trimestre" \in DOMAIN ret.value

\* C27: in the quarterly breakdown a row of month m in 1..12 falls in quarter
\* ((m - 1) div 3) + 1, a number in 1..4 and the Trimestre of the calendar
\* table for that month; the label of the group is 'YYYY-Qn', as AnoTrimestre
\* of the calendar; the groups are in ascending (year, quarter) order.
C27_Trimestre ==
    TrimestreReturned =>
        /\ \A r \in DOMAIN df.rows :
             LET dt == df.rows[r][call.coluna_data]
                 q == ((dt.m - 1) \div 3) + 1
             IN /\ q \in 1..4
                /\ q = TrimestreCalendario(dt.m)
                /\ \E i \in DOMAIN PorTrimestre :
                     /\ PorTrimestre[i].key = <<dt.y, q>>
                     /\ PorTrimestre[i].label = AnoTrimestre(dt.y, dt.m)
        /\ \A i \in DOMAIN PorTrimestre :
             \E r \in DOMAIN df.rows :
                 LET dt == df.rows[r][call.coluna_data]
                 IN PorTrimestre[i].key = <<dt.y, ((dt.m - 1) \div 3) + 1>>
        /\ \A i, j \in DOMAIN PorTrimestre :
             i < j => \/ PorTrimestre[i].key[1] < PorTrimestre[j].key[1]
                      \/ /\ PorTrimestre[i].key[1] = PorTrimestre[j].key[1]
                         /\ PorTrimestre[i].key[2] < PorTrimestre[j].key[2]

\* C27 witness: a quarterly breakdown of three groups, the last month of a
\* quarter, the fourth quarter and a second year among them
C27_Witness ==
    /\ TrimestreReturned
    /\ Len(PorTrimestre) = 3
    /\ PorTrimestre[1].label = "2024-Q1"
    /\ PorTrimestre[2].label = "2024-Q4"
    /\ PorTrimestre[3].label = "2025-Q1"
    /\ \E r \in DOMAIN df.rows : df.rows[r].date = Data(2024, 3, 15)

\* ------------------------------------------------------------------------
\* Claims on the empty table in process_sales_data

\* C28: process_sales_data raises ValueError when the table is empty (no
\* rows, or no columns), as its docstring declares.
C28_EmptyRaises ==
    (call.op = "process_sales_data" /\ (df.rows = <<>> \/ df.columns = {})) =>
        ret = Raise("ValueError")

\* ------------------------------------------------------------------------
\* PowerBITemplate: gerar_template_metricas, gerar_script_medidas_dax

\* a metric is told by its "nome"; self.metricas_padrao as __init__ sets it
metricas_padrao ==
    <<"Total de Vendas", "Número de Transações", "Ticket Médio", "Clientes Únicos",
      "Taxa de Crescimento MoM">>

metricas_adicionais ==
    <<"Produtos Vendidos", "Custo Total", "Margem Bruta", "Clientes Novos",
      "Taxa de Conversão", "Valor por Visita", "Top Categorias">>

\* the calls made on one PowerBITemplate object
MaxChamadas == 3

NomesTemplate == {<<"E-commerce", "Metrics">>, <<"KPIs">>}

\* nome.replace(' ', '_').lower(), piece by piece
LowerTemplate(nome) ==
    [i \in DOMAIN nome |->
        CASE nome[i] = "E-commerce" -> "e-commerce"
          [] nome[i] = "Metrics" -> "metrics"
          [] nome[i] = "KPIs" -> "kpis"
          [] OTHER -> nome[i]]

TemplatePath(nome, timestamp, ext) ==
    [dir |-> "exports/powerbi_templates", stem |-> LowerTemplate(nome) \o <<timestamp>>,
     ext |-> ext]

\* the default of caminho_template: no path given
NoTemplate == [dir |-> "", stem |-> <<>>, ext |-> ""]

MissingTemplate == [dir |-> "exports/powerbi_templates", stem |-> <<"missing">>, ext |-> "json"]

\* template["metricas"] is self.metricas_padrao itself, so extend() grows the
\* object's list; then the template is written, which may fail
GerarTemplateMetricas(nome_template) ==
    /\ df.chamadas < MaxChamadas
    /\ \E t \in fs.now..Len(TimestampSeq), fails \in BOOLEAN :
         LET metricas == df.metricas_padrao \o metricas_adicionais
             caminho_arquivo == TemplatePath(nome_template, TimestampSeq[t], "json")
         IN /\ df' = [df EXCEPT !.metricas_padrao = metricas, !.chamadas = @ + 1]
            /\ call' = [op |-> "gerar_template_metricas", nome |-> nome_template,
                        caminho_template |-> NoTemplate]
            /\ IF fails
               THEN ret' = Raise("RuntimeError") /\ fs' = [fs EXCEPT !.now = t]
               ELSE /\ ret' = Return(caminho_arquivo)
                    /\ fs' = [files |-> WriteFile(fs.files, caminho_arquivo, metricas),
                              now |-> t]

\* the metrics of the script: the defaults, or those of the template file
\* when it can be read as JSON
MetricasDoScript(caminho_template) ==
    IF caminho_template # NoTemplate /\ caminho_template.ext = "json"
    THEN fs.files[caminho_template]
    ELSE df.metricas_padrao

GerarScriptMedidasDax(nome_script, caminho_template) ==
    /\ df.chamadas < MaxChamadas
    /\ df' = [df EXCEPT !.chamadas = @ + 1]
    /\ call' = [op |-> "gerar_script_medidas_dax", nome |-> nome_script,
                caminho_template |-> caminho_template]
    /\ IF caminho_template # NoTemplate /\ caminho_template \notin DOMAIN fs.files
       THEN ret' = Raise("FileNotFoundError") /\ fs' = fs
       ELSE \E t \in fs.now..Len(TimestampSeq), fails \in BOOLEAN :
              LET caminho_arquivo == TemplatePath(nome_script, TimestampSeq[t], "dax")
              IN IF fails
                 THEN ret' = Raise("RuntimeError") /\ fs' = [fs EXCEPT !.now = t]
                 ELSE /\ ret' = Return(caminho_arquivo)
                      /\ fs' = [files |-> WriteFile(fs.files, caminho_arquivo,
                                                    MetricasDoScript(caminho_template)),
                                now |-> t]

\* the PowerBITemplate object takes the place of the table
InitTemplate ==
    /\ df = [metricas_padrao |-> metricas_padrao, chamadas |-> 0]
    /\ call = NoCall
    /\ ret = NoRet
    /\ fs = [files |-> <<>>, now |-> 1]

NextTemplate ==
    \/ \E nome \in NomesTemplate : GerarTemplateMetricas(nome)
    \/ \E nome \in NomesTemplate, caminho \in {NoTemplate, MissingTemplate} \cup DOMAIN fs.files :
         GerarScriptMedidasDax(nome, caminho)

SpecTemplate == InitTemplate /\ [][NextTemplate]_vars

\* ------------------------------------------------------------------------
\* Claims on metricas_padrao

\* C30: gerar_template_metricas leaves metricas_padrao unchanged: it is the
\* five defaults after any number of calls, every template written holds the
\* same twelve metrics, and gerar_script_medidas_dax called without a template
\* path emits the five defaults.
C30_MetricasPadraoUnchanged ==
    /\ df.metricas_padrao = metricas_padrao
    /\ (call.op = "gerar_template_metricas" /\ ret.kind = "ok") =>
           fs.files[ret.value] = metricas_padrao \o metricas_adicionais
    /\ (call.op = "gerar_script_medidas_dax" /\ call.caminho_template = NoTemplate
            /\ ret.kind = "ok") =>
           fs.files[ret.value] = metricas_padrao

====
